---- MODULE Spec2Model ----
(***************************************************************************)
(* Model of the asynchronous pull-request analysis service (src/main.py):  *)
(* the in-memory job registry job_store, the request handlers analyze_pr   *)
(* and check_status running on the server's event loop, and one job thread *)
(* per submission running the four-node graph                              *)
(* fetch_diff -> split_by_file -> process_files -> aggregate_summaries.    *)
(*                                                                         *)
(* Text is modelled as a sequence of one-character strings, so that the    *)
(* string operations of the code (concatenation, strip, endswith, the      *)
(* header regular expression) are computed rather than assumed.            *)
(***************************************************************************)
EXTENDS Integers, Sequences, FiniteSets, TLC

\* Number of job ids the uuid generator can hand out in one run.
MaxJobs == 2

\* ------------------------------------------------------------------ text

NL == "\n"

\* The characters str.strip() removes that occur in the modelled texts.
Whitespace == {" ", NL}

\* str.strip(): the text between the first and the last character that is
\* not whitespace.
strip(s) ==
    LET keep == {i \in 1..Len(s) : s[i] \notin Whitespace}
    IN IF keep = {} THEN <<>>
       ELSE SubSeq(s, CHOOSE i \in keep : \A k \in keep : i <= k,
                      CHOOSE i \in keep : \A k \in keep : i >= k)

\* text[i .. i+Len(pat)-1] = pat
MatchesAt(text, pat, i) ==
    /\ i >= 1
    /\ i + Len(pat) - 1 <= Len(text)
    /\ SubSeq(text, i, i + Len(pat) - 1) = pat

\* str.endswith(suffix)
endswith(s, suffix) ==
    /\ Len(suffix) <= Len(s)
    /\ MatchesAt(s, suffix, Len(s) - Len(suffix) + 1)

\* Smallest index >= from at which pat occurs in text, 0 when there is none.
IndexOf(text, pat, from) ==
    LET hits == {i \in from..(Len(text) - Len(pat) + 1) : MatchesAt(text, pat, i)}
    IN IF hits = {} THEN 0 ELSE CHOOSE i \in hits : \A k \in hits : i <= k

\* "\n\n".join(parts)
RECURSIVE join(_, _)
join(sep, parts) ==
    IF parts = <<>> THEN <<>>
    ELSE IF Len(parts) = 1 THEN parts[1]
    ELSE parts[1] \o sep \o join(sep, Tail(parts))

\* ------------------------------------------------------- python values

\* Python's None.
None == [py |-> "None"]

\* dict[key] = value / {**d, key: value}
DictSet(d, key, value) ==
    [k \in (DOMAIN d) \cup {key} |-> IF k = key THEN value ELSE d[k]]

\* dict.get(key), None when the key is missing
DictGet(d, key) == IF key \in DOMAIN d THEN d[key] ELSE None

\* ---------------------------------------------------------- pure stages

DotCls == <<".", "c", "l", "s">>
DotTrigger == <<".", "t", "r", "i", "g", "g", "e", "r">>

\* filename.endswith(".cls") or filename.endswith(".trigger")
is_apex_file(filename) ==
    endswith(filename, DotCls) \/ endswith(filename, DotTrigger)

\* The literal pieces of the header pattern
\*   diff --git a/(.*?) b/.*?\n(.*?)(?=\ndiff --git a/|\Z)      (re.DOTALL)
HeaderLit == <<"d", "i", "f", "f", " ", "-", "-", "g", "i", "t", " ", "a", "/">>
SepLit == <<" ", "b", "/">>
LookaheadLit == <<NL>> \o HeaderLit

\* v bound to a name in F: the intermediate results of a match.
Bind(v, F(_)) == CHOOSE r \in {F(x) : x \in {v}} : TRUE

NoMatch == [ok |-> FALSE, filename |-> <<>>, file_diff |-> <<>>, stop |-> 0]

\* One match of the pattern whose header literal starts at index s:
\* group 1 ends at the first " b/" (lazy), at index b; the header ends at
\* the first newline after it (lazy, DOTALL), at index n; group 2 ends at
\* the first position that is followed by "\ndiff --git a/", at index la,
\* or at the end of the text.  The result is [ok, filename, file_diff,
\* stop]; stop is where the scan resumes.
MatchAt(text, s) ==
    Bind(IndexOf(text, SepLit, s + Len(HeaderLit)), LAMBDA b :
      IF b = 0 THEN NoMatch
      ELSE Bind(IndexOf(text, <<NL>>, b + Len(SepLit)), LAMBDA n :
        IF n = 0 THEN NoMatch
        ELSE Bind(IndexOf(text, LookaheadLit, n + 1), LAMBDA la :
          [ok |-> TRUE,
           filename |-> SubSeq(text, s + Len(HeaderLit), b - 1),
           file_diff |-> SubSeq(text, n + 1,
                                IF la = 0 THEN Len(text) ELSE la - 1),
           stop |-> IF la = 0 THEN Len(text) + 1 ELSE la])))

\* pattern.findall(text) scanning from index pos: the non-overlapping
\* matches from left to right, as <<filename, file_diff>> pairs.
RECURSIVE findall(_, _)
findall(text, pos) ==
    Bind(IndexOf(text, HeaderLit, pos), LAMBDA s :
      IF s = 0 THEN <<>>
      ELSE Bind(MatchAt(text, s), LAMBDA m :
        IF ~m.ok THEN <<>>
        ELSE <<<<m.filename, m.file_diff>>>> \o findall(text, m.stop)))

\* The record appended for one match (lines 58-65); is_apex is computed
\* from the captured filename, the stored filename is stripped.
NewFileResult(filename, file_diff) ==
    [filename |-> strip(filename),
     diff |-> strip(file_diff),
     is_apex |-> is_apex_file(filename),
     explanation |-> <<>>,
     review_comments |-> <<>>,
     business_summary |-> <<>>]

split_by_file(state) ==
    Bind(findall(state["diff"], 1), LAMBDA matches :
      DictSet(state, "files",
              [i \in 1..Len(matches) |->
                  NewFileResult(matches[i][1], matches[i][2])]))

\* ----------------------------------------------------- the environment

\* The ids uuid.uuid4() can produce in one run, and the strings a client
\* can poll with: those ids and one string (0) that is no uuid.
JobIds == 1..MaxJobs
PollIds == JobIds \cup {0}

\* req.pr_url of a submission.
Urls == {<<"h", "/", "1">>}

DiffSuffix ==
    <<".", "d", "i", "f", "f">>

\* A diff with two files, the first an Apex class:
\*   diff --git a/a.cls b/a.cls\n+x\ndiff --git a/b.py b/b.py\n-y\n
DiffTwoFiles ==
    HeaderLit \o <<"a", ".", "c", "l", "s">> \o SepLit
      \o <<"a", ".", "c", "l", "s", NL, "+", "x">>
      \o LookaheadLit \o <<"b", ".", "p", "y">> \o SepLit
      \o <<"b", ".", "p", "y", NL, "-", "y", NL>>

NotFoundBody == <<"N", "o", "t", " ", "F", "o", "u", "n", "d">>

\* What requests.get(diff_url) can return: a response object with a status
\* code and a body.  requests.get does not raise on an error status.
HttpResponses ==
    {[status_code |-> 200, text |-> DiffTwoFiles],
     [status_code |-> 404, text |-> NotFoundBody]}

\* The exceptions requests.get raises when no response arrives.
NetworkErrors ==
    {[cls |-> "ConnectionError", msg |-> "Connection refused"]}

\* The exceptions a completion call raises.
CompletionErrors ==
    {[cls |-> "APIError", msg |-> "Rate limit exceeded"]}

\* The message contents a completion call can return.
CompletionTexts == {<<" ", "o", "k", NL>>}

\* str(e)
str(e) == e.msg

\* ------------------------------------------------------------ the graph

END == "__end__"

\* builder.set_entry_point / builder.add_edge (lines 128-132)
EntryPoint == "fetch_diff"

\* A slip: the edge out of split_by_file skips process_files.
EdgeSkipping(node) ==
    CASE node = "fetch_diff" -> "split_by_file"
      [] node = "split_by_file" -> "aggregate_summaries"
      [] node = "process_files" -> "aggregate_summaries"
      [] node = "aggregate_summaries" -> END

Edge(node) ==
    CASE node = "fetch_diff" -> "split_by_file"
      [] node = "split_by_file" -> "process_files"
      [] node = "process_files" -> "aggregate_summaries"
      [] node = "aggregate_summaries" -> END

\* --------------------------------------------------------- the registry

\* The three dict literals assigned to job_store[job_id].
ProcessingRecord == [status |-> "processing", result |-> None]

\* A slip: the result is left out of the record.
DoneRecordNoResult(result) == [status |-> "done"]

DoneRecord(result) == [status |-> "done", result |-> result]

\* A slip: the error record keeps the result key of the record it replaces.
ErrorRecordWithResult(e) ==
    [status |-> "error", result |-> None, error |-> str(e)]

ErrorRecord(e) == [status |-> "error", error |-> str(e)]

InvalidJobId == [error |-> "Invalid job ID"]

\* Python truth value of what job_store.get returns: None and the empty
\* dict are false.
Truthy(x) == x # None /\ DOMAIN x # {}

\* A slip: the status is updated in place and the payload is not written.
PublishStatusOnly(store, job_id, record) ==
    DictSet(store, job_id,
            DictSet(IF job_id \in DOMAIN store THEN store[job_id] ELSE <<>>,
                    "status", record.status))

\* job_store[job_id] = record: one assignment that replaces the whole
\* record object.
Publish(store, job_id, record) == DictSet(store, job_id, record)

\* A slip: a generator that can repeat an id.
uuid4Colliding(store) == JobIds

\* uuid.uuid4(): an id that was not handed out before.  Ids carry no
\* meaning, so the generator is taken to hand them out in increasing order.
uuid4(store) ==
    LET fresh == JobIds \ DOMAIN store
    IN {id \in fresh : \A k \in fresh : id <= k}

\* ---------------------------------------------------------------- state

VARIABLES
    job_store,  \* the registry: job id -> record
    loop,       \* the handler the event loop is running, or Idle
    returned,   \* the job ids analyze_pr has returned to clients
    pc,         \* per job thread: where it is in run_job
    state,      \* per job thread: the PRState the graph is passing along
    loc,        \* per job thread: the locals of the running node
    exc,        \* per job thread: the exception being propagated
    trace,      \* per job thread: the nodes entered, in order
    gets,       \* per job thread: the requests.get calls and their outcomes
    calls       \* per job thread: the completion calls issued

vars ==
    <<job_store, loop, returned, pc, state, loc, exc, trace, gets, calls>>

threadVars == <<pc, state, loc, exc, trace, gets, calls>>

Idle == [op |-> "idle"]

NoLocals ==
    [i |-> 1, updated_files |-> <<>>, explanation |-> <<>>,
     review_comments |-> <<>>, dev_summary |-> <<>>]

Init ==
    /\ job_store = <<>>
    /\ loop = Idle
    /\ returned = {}
    /\ pc = [j \in JobIds |-> "unborn"]
    /\ state = [j \in JobIds |-> None]
    /\ loc = [j \in JobIds |-> NoLocals]
    /\ exc = [j \in JobIds |-> None]
    /\ trace = [j \in JobIds |-> <<>>]
    /\ gets = [j \in JobIds |-> <<>>]
    /\ calls = [j \in JobIds |-> <<>>]

\* ------------------------------------------------ handlers (event loop)
\* analyze_pr and check_status are coroutines without an await: the event
\* loop runs each to its end before it starts another handler.  The job
\* threads are OS threads and run between any two statements of a handler.

\* A slip: the id is drawn but the record is not inserted before the thread
\* is started.
AnalyzeInsertNoRecord(url) ==
    /\ loop = Idle
    /\ \E id \in uuid4(job_store) :
         loop' = [op |-> "analyze_pr", pc |-> "start", job_id |-> id,
                  req |-> [pr_url |-> url]]
    /\ UNCHANGED <<job_store, returned, threadVars>>

\* analyze_pr, lines 142-143: draw the id and insert the record.
AnalyzeInsert(url) ==
    /\ loop = Idle
    /\ \E id \in uuid4(job_store) :
         /\ job_store' = Publish(job_store, id, ProcessingRecord)
         /\ loop' = [op |-> "analyze_pr", pc |-> "start", job_id |-> id,
                     req |-> [pr_url |-> url]]
    /\ UNCHANGED <<returned, threadVars>>

\* analyze_pr, line 152: Thread(target=run_job).start().  The new thread
\* is about to call graph.invoke({"pr_url": req.pr_url}).
AnalyzeStart ==
    /\ loop # Idle
    /\ loop.op = "analyze_pr" /\ loop.pc = "start"
    /\ pc[loop.job_id] = "unborn"
    /\ pc' = [pc EXCEPT ![loop.job_id] = EntryPoint]
    /\ state' = [state EXCEPT ![loop.job_id] = [pr_url |-> loop.req.pr_url]]
    /\ trace' = [trace EXCEPT ![loop.job_id] = <<EntryPoint>>]
    /\ loop' = [loop EXCEPT !.pc = "return"]
    /\ UNCHANGED <<job_store, returned, loc, exc, gets, calls>>

\* analyze_pr, line 153: return {"job_id": job_id, "status": "submitted"}.
AnalyzeReturn ==
    /\ loop # Idle
    /\ loop.op = "analyze_pr" /\ loop.pc = "return"
    /\ returned' = returned \cup {loop.job_id}
    /\ loop' = Idle
    /\ UNCHANGED <<job_store, threadVars>>

\* A slip: the missing-record test is left out.
check_statusNoGuard(store, job_id) == DictGet(store, job_id)

\* The body check_status returns for job_id (lines 157-160).
check_status(store, job_id) ==
    LET job == DictGet(store, job_id)
    IN IF ~Truthy(job) THEN InvalidJobId ELSE job

\* GET /status/{job_id}: the handler runs and its return value becomes the
\* response being sent.
CheckStatus(job_id) ==
    /\ loop = Idle
    /\ loop' = [op |-> "check_status", pc |-> "return", job_id |-> job_id,
                body |-> check_status(job_store, job_id)]
    /\ UNCHANGED <<job_store, returned, threadVars>>

\* The response of check_status has been sent.
CheckStatusReturn ==
    /\ loop # Idle
    /\ loop.op = "check_status"
    /\ loop' = Idle
    /\ UNCHANGED <<job_store, returned, threadVars>>

\* ----------------------------------------------------------- job thread
\* One action per external call (the suspension points of the thread),
\* each with the pure code that follows it up to the next call.

ExplainBudget == 500
ReviewBudget == 500
BusinessBudget == 300
DevSummaryBudget == 400
BusinessSummaryBudget == 300

ExplainInstr ==
    <<"E", "x", "p", "l", "a", "i", "n", " ", "t", "h", "e", " ", "c", "h",
      "a", "n", "g", "e", "s", " ", "i", "n", " ", "t", "h", "i", "s",
      " ", "f", "i", "l", "e", ":", NL, NL>>

ReviewInstr ==
    <<"R", "e", "v", "i", "e", "w", " ", "t", "h", "e", " ", "f", "o", "l",
      "l", "o", "w", "i", "n", "g", " ", "A", "p", "e", "x", " ", "c",
      "o", "d", "e", " ", "f", "o", "r", " ", "b", "e", "s", "t", " ",
      "p", "r", "a", "c", "t", "i", "c", "e", "s", ":", NL, NL>>

BusinessInstr ==
    <<"S", "u", "m", "m", "a", "r", "i", "z", "e", " ", "t", "h", "i", "s",
      " ", "f", "i", "l", "e", " ", "c", "h", "a", "n", "g", "e", " ",
      "f", "o", "r", " ", "b", "u", "s", "i", "n", "e", "s", "s", " ",
      "u", "s", "e", "r", "s", ":", NL, NL>>

ChangesIn ==
    <<"C", "h", "a", "n", "g", "e", "s", " ", "i", "n", " ">>

\* The node that follows `node`, and the record of entering it.
Leave(j, node) ==
    /\ pc' = [pc EXCEPT ![j] = Edge(node)]
    /\ trace' = [trace EXCEPT ![j] =
                   IF Edge(node) = END THEN @ ELSE Append(@, Edge(node))]

\* A slip: the exception is not caught and ends the thread.
RaiseUncaught(j, e) ==
    /\ pc' = [pc EXCEPT ![j] = "finished"]
    /\ exc' = [exc EXCEPT ![j] = e]
    /\ UNCHANGED trace

\* An exception leaves the node and the graph: control is in the except
\* clause of run_job next.
Raise(j, e) ==
    /\ pc' = [pc EXCEPT ![j] = "except"]
    /\ exc' = [exc EXCEPT ![j] = e]
    /\ UNCHANGED trace

\* A slip: the call is issued a second time.
CallTwice(j, content, max_tokens) ==
    calls' = [calls EXCEPT ![j] =
                @ \o <<[content |-> content, max_tokens |-> max_tokens],
                       [content |-> content, max_tokens |-> max_tokens]>>]

\* openai.chat.completions.create(messages=[content], max_tokens=...)
Call(j, content, max_tokens) ==
    calls' = [calls EXCEPT ![j] =
                Append(@, [content |-> content, max_tokens |-> max_tokens])]

\* requests.get(url) and what came of it: a response or an exception.
Get(j, url, outcome) ==
    gets' = [gets EXCEPT ![j] = Append(@, [url |-> url, outcome |-> outcome])]

\* A slip: the node returns only the field it computed.
fetch_pr_diffOnly(st, r) == [diff |-> r.text]

\* fetch_pr_diff (lines 48-51) on the response r of the GET.
fetch_pr_diff(st, r) == DictSet(st, "diff", r.text)

FetchDiff(j) ==
    /\ pc[j] = "fetch_diff"
    /\ \/ \E e \in NetworkErrors :
            /\ Get(j, state[j]["pr_url"] \o DiffSuffix, e)
            /\ Raise(j, e)
            /\ UNCHANGED state
       \/ \E r \in HttpResponses :
            /\ Get(j, state[j]["pr_url"] \o DiffSuffix, r)
            /\ state' = [state EXCEPT ![j] = fetch_pr_diff(@, r)]
            /\ Leave(j, "fetch_diff")
            /\ UNCHANGED exc
    /\ UNCHANGED <<job_store, loop, returned, loc, calls>>

SplitByFile(j) ==
    /\ pc[j] = "split_by_file"
    /\ state' = [state EXCEPT ![j] = split_by_file(@)]
    /\ loc' = [loc EXCEPT ![j] = NoLocals]
    /\ Leave(j, "split_by_file")
    /\ UNCHANGED <<job_store, loop, returned, exc, gets, calls>>

\* process_files, lines 70-78: the next file's explanation call.
Explain(j) ==
    /\ pc[j] = "process_files"
    /\ loc[j].i <= Len(state[j]["files"])
    /\ LET file == state[j]["files"][loc[j].i]
       IN /\ Call(j, ExplainInstr \o file.diff, ExplainBudget)
          /\ \/ \E e \in CompletionErrors :
                  /\ Raise(j, e)
                  /\ UNCHANGED loc
             \/ \E t \in CompletionTexts :
                  /\ loc' = [loc EXCEPT ![j].explanation = strip(t),
                                        ![j].review_comments = <<>>]
                  /\ pc' = [pc EXCEPT ![j] =
                              IF file.is_apex THEN "process_files.review"
                              ELSE "process_files.business"]
                  /\ UNCHANGED <<exc, trace>>
    /\ UNCHANGED <<job_store, loop, returned, state, gets>>

\* process_files, lines 79-84: the review call of an Apex file.
Review(j) ==
    /\ pc[j] = "process_files.review"
    /\ LET file == state[j]["files"][loc[j].i]
       IN /\ Call(j, ReviewInstr \o file.diff, ReviewBudget)
          /\ \/ \E e \in CompletionErrors :
                  /\ Raise(j, e)
                  /\ UNCHANGED loc
             \/ \E t \in CompletionTexts :
                  /\ loc' = [loc EXCEPT ![j].review_comments = strip(t)]
                  /\ pc' = [pc EXCEPT ![j] = "process_files.business"]
                  /\ UNCHANGED <<exc, trace>>
    /\ UNCHANGED <<job_store, loop, returned, state, gets>>

\* process_files, lines 86-97: the business-summary call and the append.
Business(j) ==
    /\ pc[j] = "process_files.business"
    /\ LET file == state[j]["files"][loc[j].i]
       IN /\ Call(j, BusinessInstr \o file.diff, BusinessBudget)
          /\ \/ \E e \in CompletionErrors :
                  /\ Raise(j, e)
                  /\ UNCHANGED loc
             \/ \E t \in CompletionTexts :
                  /\ loc' = [loc EXCEPT
                       ![j].updated_files =
                           Append(@, [file EXCEPT
                               !.explanation = loc[j].explanation,
                               !.review_comments = loc[j].review_comments,
                               !.business_summary = strip(t)]),
                       ![j].i = @ + 1]
                  /\ pc' = [pc EXCEPT ![j] = "process_files"]
                  /\ UNCHANGED <<exc, trace>>
    /\ UNCHANGED <<job_store, loop, returned, state, gets>>

\* process_files, line 98: the loop is exhausted.
ProcessFilesReturn(j) ==
    /\ pc[j] = "process_files"
    /\ loc[j].i > Len(state[j]["files"])
    /\ state' = [state EXCEPT ![j] = DictSet(@, "files", loc[j].updated_files)]
    /\ Leave(j, "process_files")
    /\ UNCHANGED <<job_store, loop, returned, loc, exc, gets, calls>>

\* aggregate_summaries, line 101
Explanations(files) ==
    [k \in 1..Len(files) |->
        ChangesIn \o files[k].filename \o <<":", NL>> \o files[k].explanation]

\* aggregate_summaries, line 102
BusinessSummaries(files) ==
    [k \in 1..Len(files) |-> files[k].business_summary]

\* A slip: with no file there is nothing to summarise, so the node returns
\* an empty developer summary without a completion call.
AggregateDevSkipEmpty(j) ==
    /\ pc[j] = "aggregate_summaries"
    /\ IF state[j]["files"] = <<>>
       THEN /\ loc' = [loc EXCEPT ![j].dev_summary = <<>>]
            /\ pc' = [pc EXCEPT ![j] = "aggregate_summaries.business"]
            /\ UNCHANGED <<exc, trace, calls>>
       ELSE /\ Call(j, join(<<NL, NL>>, Explanations(state[j]["files"])),
                    DevSummaryBudget)
            /\ \/ \E e \in CompletionErrors :
                    /\ Raise(j, e)
                    /\ UNCHANGED loc
               \/ \E t \in CompletionTexts :
                    /\ loc' = [loc EXCEPT ![j].dev_summary = strip(t)]
                    /\ pc' = [pc EXCEPT ![j] = "aggregate_summaries.business"]
                    /\ UNCHANGED <<exc, trace>>
    /\ UNCHANGED <<job_store, loop, returned, state, gets>>

\* aggregate_summaries, lines 104-108: the developer-summary call.
AggregateDev(j) ==
    /\ pc[j] = "aggregate_summaries"
    /\ Call(j, join(<<NL, NL>>, Explanations(state[j]["files"])),
            DevSummaryBudget)
    /\ \/ \E e \in CompletionErrors :
            /\ Raise(j, e)
            /\ UNCHANGED loc
       \/ \E t \in CompletionTexts :
            /\ loc' = [loc EXCEPT ![j].dev_summary = strip(t)]
            /\ pc' = [pc EXCEPT ![j] = "aggregate_summaries.business"]
            /\ UNCHANGED <<exc, trace>>
    /\ UNCHANGED <<job_store, loop, returned, state, gets>>

\* aggregate_summaries, lines 110-120: the business-summary call and the
\* returned state.
AggregateBusiness(j) ==
    /\ pc[j] = "aggregate_summaries.business"
    /\ Call(j, join(<<NL, NL>>, BusinessSummaries(state[j]["files"])),
            BusinessSummaryBudget)
    /\ \/ \E e \in CompletionErrors :
            /\ Raise(j, e)
            /\ UNCHANGED state
       \/ \E t \in CompletionTexts :
            /\ state' = [state EXCEPT ![j] =
                 DictSet(DictSet(@, "dev_summary", loc[j].dev_summary),
                         "business_summary", strip(t))]
            /\ Leave(j, "aggregate_summaries")
            /\ UNCHANGED exc
    /\ UNCHANGED <<job_store, loop, returned, loc, gets>>

\* A slip: job_id is shared by all submissions instead of captured per
\* call, so a thread writes under the id drawn last.
run_job_idShared(j) ==
    CHOOSE id \in DOMAIN job_store : \A k \in DOMAIN job_store : id >= k

\* The key run_job writes: job_id of the enclosing analyze_pr call, which
\* is the id the thread was started for.
run_job_id(j) == j

\* A slip: the record is marked done when the aggregate node is entered.
StoreDoneEarly(j) ==
    /\ pc[j] = "aggregate_summaries"
    /\ job_store' = Publish(job_store, run_job_id(j), DoneRecord(state[j]))
    /\ pc' = [pc EXCEPT ![j] = "finished"]
    /\ UNCHANGED <<loop, returned, state, loc, exc, trace, gets, calls>>

\* run_job, line 148: graph.invoke returned.
StoreDone(j) ==
    /\ pc[j] = END
    /\ job_store' = Publish(job_store, run_job_id(j), DoneRecord(state[j]))
    /\ pc' = [pc EXCEPT ![j] = "finished"]
    /\ UNCHANGED <<loop, returned, state, loc, exc, trace, gets, calls>>

\* A slip: the except clause keeps what the graph had computed so far.
StoreErrorPartial(j) ==
    /\ pc[j] = "except"
    /\ job_store' = Publish(job_store, run_job_id(j),
                            [status |-> "error", error |-> str(exc[j]),
                             result |-> DictSet(state[j], "files",
                                                loc[j].updated_files)])
    /\ pc' = [pc EXCEPT ![j] = "finished"]
    /\ UNCHANGED <<loop, returned, state, loc, exc, trace, gets, calls>>

\* run_job, lines 149-150: graph.invoke raised.
StoreError(j) ==
    /\ pc[j] = "except"
    /\ job_store' = Publish(job_store, run_job_id(j), ErrorRecord(exc[j]))
    /\ pc' = [pc EXCEPT ![j] = "finished"]
    /\ UNCHANGED <<loop, returned, state, loc, exc, trace, gets, calls>>

\* One step of the thread of job j.
Thread(j) ==
    \/ FetchDiff(j)
    \/ SplitByFile(j)
    \/ Explain(j)
    \/ Review(j)
    \/ Business(j)
    \/ ProcessFilesReturn(j)
    \/ AggregateDev(j)
    \/ AggregateBusiness(j)
    \/ StoreDone(j)
    \/ StoreError(j)

Next ==
    \/ \E url \in Urls : AnalyzeInsert(url)
    \/ AnalyzeStart
    \/ AnalyzeReturn
    \/ \E job_id \in PollIds : CheckStatus(job_id)
    \/ CheckStatusReturn
    \/ \E j \in JobIds : Thread(j)

Spec == Init /\ [][Next]_vars

\* The scheduler runs every started thread and the event loop finishes the
\* handler it is running.
FairSpec ==
    /\ Spec
    /\ \A j \in JobIds : WF_vars(Thread(j))
    /\ WF_vars(AnalyzeStart \/ AnalyzeReturn \/ CheckStatusReturn)

\* =============================================================== claims

Settled == {"done", "error"}

\* A record carries a result when it has the key with a value other than
\* None, and an error message when it has the key.
HasResult(rec) == "result" \in DOMAIN rec /\ rec.result # None
HasError(rec) == "error" \in DOMAIN rec

\* Status and payload of a record agree.
RecordOk(rec) ==
    /\ rec.status \in {"processing", "done", "error"}
    /\ HasResult(rec) <=> rec.status = "done"
    /\ HasError(rec) <=> rec.status = "error"

\* C1: every record is created by analyze_pr with status processing, changes
\* only from processing and only to done or error (so at most once, and a
\* settled record never changes), and no record is ever removed.
C1_RecordLifecycle ==
    [][\A id \in JobIds :
         /\ id \in DOMAIN job_store => id \in DOMAIN job_store'
         /\ (id \notin DOMAIN job_store /\ id \in DOMAIN job_store') =>
              /\ job_store'[id].status = "processing"
              /\ loop = Idle /\ loop' # Idle
              /\ loop'.op = "analyze_pr" /\ loop'.job_id = id
         /\ (id \in DOMAIN job_store /\ id \in DOMAIN job_store'
               /\ job_store'[id] # job_store[id]) =>
              /\ job_store[id].status = "processing"
              /\ job_store'[id].status \in Settled]_vars

C1_Witness ==
    \E a, b \in DOMAIN job_store :
        job_store[a].status = "done" /\ job_store[b].status = "error"

\* C2: under fair scheduling of the job threads, every job that has a
\* record eventually has status done or error.
C2_EventuallySettled ==
    \A j \in JobIds :
        (j \in DOMAIN job_store)
            ~> (j \in DOMAIN job_store /\ job_store[j].status \in Settled)

C2_Witness ==
    /\ DOMAIN job_store = JobIds
    /\ \A j \in JobIds : job_store[j].status \in Settled

\* The order of the stages the claims speak of.
Pipeline ==
    <<"fetch_diff", "split_by_file", "process_files", "aggregate_summaries">>

IsPrefix(s, t) == Len(s) <= Len(t) /\ s = SubSeq(t, 1, Len(s))

NodeOf(p) ==
    CASE p \in {"process_files", "process_files.review",
                "process_files.business"} -> "process_files"
      [] p \in {"aggregate_summaries", "aggregate_summaries.business"}
            -> "aggregate_summaries"
      [] OTHER -> p

Running(j) == pc[j] \notin {"unborn", "except", "finished", END}

C3_StateOk ==
    \A j \in JobIds :
        /\ IsPrefix(trace[j], Pipeline)
        /\ Running(j) =>
             trace[j] # <<>> /\ trace[j][Len(trace[j])] = NodeOf(pc[j])
        /\ pc[j] = END => trace[j] = Pipeline
        /\ (pc[j] = "finished" /\ exc[j] = None) => trace[j] = Pipeline

C3_StepOk ==
    \A j \in JobIds :
        /\ pc'[j] = "except" => trace'[j] = trace[j]
        /\ pc[j] \in {"except", "finished"} =>
             /\ pc'[j] \in {pc[j], "finished"}
             /\ trace'[j] = trace[j]
             /\ gets'[j] = gets[j]
             /\ calls'[j] = calls[j]

\* C3: the nodes a job has entered are always a prefix of fetch_diff,
\* split_by_file, process_files, aggregate_summaries, the thread is in the
\* last of them, the graph ends only after all four, and once a node has
\* raised no node is entered and no external call is made again.
C3_LinearPipeline == []C3_StateOk /\ [][C3_StepOk]_vars

C3_Witness ==
    \E a, b \in JobIds :
        /\ pc[a] = "finished" /\ exc[a] = None
        /\ pc[b] = "finished" /\ exc[b] # None
        /\ trace[b] = SubSeq(Pipeline, 1, 3)

\* C4: every record has a status among processing, done and error, a result
\* exactly when done and an error message exactly when error.
C4_RecordShape == \A id \in DOMAIN job_store : RecordOk(job_store[id])

C4_Witness ==
    \E a, b \in DOMAIN job_store :
        /\ job_store[a].status = "processing"
        /\ job_store[b].status = "done"
        /\ job_store[b].result["files"] # <<>>

\* C5: the record a poll returns is the whole record as created or the whole
\* record now stored, with status and payload in agreement.
C5_PollSeesWholeRecord ==
    (loop # Idle /\ loop.op = "check_status" /\ loop.body # InvalidJobId) =>
        /\ RecordOk(loop.body)
        /\ \/ loop.body = ProcessingRecord
           \/ loop.body = job_store[loop.job_id]

\* A poll read the record, and the thread settled it before the response
\* was sent.
C5_Witness ==
    /\ loop # Idle /\ loop.op = "check_status"
    /\ loop.body = ProcessingRecord
    /\ job_store[loop.job_id].status \in Settled

\* C6: a step of the thread of job j leaves the record of every other id as
\* it was, and adds and removes no record.
C6_ThreadWritesOwnRecord ==
    [][\A j \in JobIds :
         Thread(j) =>
           /\ DOMAIN job_store' = DOMAIN job_store
           /\ \A k \in DOMAIN job_store \ {j} : job_store'[k] = job_store[k]]_vars

C6_Witness ==
    \E j, k \in DOMAIN job_store :
        /\ j # k
        /\ job_store[j].status = "error"
        /\ job_store[k].status = "processing"
        /\ pc[k] = "process_files.review"

\* C7: a thread exists and an id is returned only after the record of that
\* id was inserted, analyze_pr can return whatever the thread is doing, and
\* a poll of a returned id is never answered with Invalid job ID.
C7_RecordBeforeThreadAndReturn ==
    /\ \A j \in JobIds : pc[j] # "unborn" => j \in DOMAIN job_store
    /\ returned \subseteq DOMAIN job_store
    /\ (loop # Idle /\ loop.op = "analyze_pr") =>
         /\ loop.job_id \in DOMAIN job_store
         /\ loop.pc = "return" => ENABLED AnalyzeReturn
    /\ (loop # Idle /\ loop.op = "check_status" /\ loop.job_id \in returned) =>
         loop.body # InvalidJobId

\* A returned id is polled before its thread has made the GET.
C7_Witness ==
    /\ loop # Idle /\ loop.op = "check_status"
    /\ loop.job_id \in returned
    /\ loop.body = ProcessingRecord
    /\ pc[loop.job_id] = "fetch_diff"

C8_StateOk ==
    (loop # Idle /\ loop.op = "check_status" /\ loop.job_id \notin returned) =>
        loop.body = InvalidJobId

C8_StepOk ==
    (loop = Idle /\ loop' # Idle /\ loop'.op = "check_status") =>
        job_store' = job_store

\* C8: a poll with an id that no submission has returned is answered with
\* Invalid job ID, and a poll leaves the registry as it was.
C8_UnknownIdRejected == []C8_StateOk /\ [][C8_StepOk]_vars

C8_Witness ==
    /\ loop # Idle /\ loop.op = "check_status"
    /\ loop.job_id \notin returned
    /\ loop.body = InvalidJobId
    /\ \E j \in DOMAIN job_store : job_store[j].status = "done"

\* The fetch node of job j raised.
FetchRaised(j) == exc[j] # None /\ trace[j] = <<"fetch_diff">>

GetFailed(outcome) ==
    IF "cls" \in DOMAIN outcome THEN TRUE ELSE outcome.status_code >= 400

\* C10: a GET that raised or returned an error status is the only GET of
\* its job, the job never enters split_by_file, and its record ends in
\* error.
C10_GetFailureFailsJob ==
    \A j \in JobIds :
        \A i \in 1..Len(gets[j]) :
            GetFailed(gets[j][i].outcome) =>
                /\ Len(gets[j]) = 1
                /\ trace[j] = <<"fetch_diff">>
                /\ pc[j] = "finished" => job_store[j].status = "error"

\* A completion call of job j raised.
CompletionRaised(j) == exc[j] \in CompletionErrors

\* C11: once a completion call of a job has raised, the job makes no further
\* completion call, control is in the except clause or past it, and the
\* record run_job then writes is exactly {status: error, error: message}:
\* no result, no file list.
C11_CompletionFailureFailsJob ==
    [][\A j \in JobIds :
          exc'[j] \in CompletionErrors =>
              /\ exc[j] = None \/ calls'[j] = calls[j]
              /\ pc'[j] \in {"except", "finished"}
              /\ pc'[j] = "finished" =>
                     job_store'[j] = [status |-> "error",
                                      error |-> exc'[j].msg]]_vars

C11_Witness ==
    \E j \in JobIds :
        /\ pc[j] = "finished" /\ CompletionRaised(j)
        /\ loc[j].updated_files # <<>>
        /\ job_store[j].status = "error"
        /\ "result" \notin DOMAIN job_store[j]

\* ------------------------------------------- one job on arbitrary diffs
\* A single submitted job whose GET is answered with any text built from a
\* few pieces of diff syntax: what the stages compute on each text.

\* Number of pieces a response text is built from.
MaxPieces == 4

\* Header line of a.cls, of b.py, of a.cls with a space after the path;
\* a newline; a hunk between newlines; a space.
HeaderA ==
    HeaderLit \o <<"a", ".", "c", "l", "s">> \o SepLit
      \o <<"a", ".", "c", "l", "s">>

HeaderB ==
    HeaderLit \o <<"b", ".", "p", "y">> \o SepLit \o <<"b", ".", "p", "y">>

HeaderASpace ==
    HeaderLit \o <<"a", ".", "c", "l", "s", " ">> \o SepLit
      \o <<"a", ".", "c", "l", "s">>

HunkLines == <<NL, "+", "x", NL>>

DiffPieces == {HeaderA, HeaderB, HeaderASpace, <<NL>>, HunkLines, <<" ">>}

RECURSIVE TextsUpTo(_)
TextsUpTo(n) ==
    IF n = 0 THEN {<<>>}
    ELSE LET prev == TextsUpTo(n - 1)
         IN prev \cup {t \o piece : t \in prev, piece \in DiffPieces}

\* The bodies the GET is answered with.
DiffTexts == TextsUpTo(MaxPieces)

PipeUrls == {<<"h", "/", "1">>, <<"h", "/", "2">>}

\* Job 1 has been submitted with url and its id returned; its thread is
\* about to make the GET, or the GET has returned r.
InitPipeline ==
    /\ job_store = DictSet(<<>>, 1, ProcessingRecord)
    /\ loop = Idle
    /\ returned = {1}
    /\ loc = [j \in JobIds |-> NoLocals]
    /\ exc = [j \in JobIds |-> None]
    /\ calls = [j \in JobIds |-> <<>>]
    /\ \E url \in PipeUrls :
         \/ /\ pc = [j \in JobIds |-> IF j = 1 THEN EntryPoint ELSE "unborn"]
            /\ state = [j \in JobIds |->
                          IF j = 1 THEN [pr_url |-> url] ELSE None]
            /\ trace = [j \in JobIds |->
                          IF j = 1 THEN <<EntryPoint>> ELSE <<>>]
            /\ gets = [j \in JobIds |-> <<>>]
         \/ \E t \in DiffTexts :
              LET r == [status_code |-> 200, text |-> t]
              IN /\ pc = [j \in JobIds |->
                            IF j = 1 THEN Edge(EntryPoint) ELSE "unborn"]
                 /\ state = [j \in JobIds |->
                               IF j = 1 THEN fetch_pr_diff([pr_url |-> url], r)
                               ELSE None]
                 /\ trace = [j \in JobIds |->
                               IF j = 1 THEN <<EntryPoint, Edge(EntryPoint)>>
                               ELSE <<>>]
                 /\ gets = [j \in JobIds |->
                              IF j = 1
                              THEN <<[url |-> url \o DiffSuffix, outcome |-> r]>>
                              ELSE <<>>]

NextPipeline == \E j \in JobIds : Thread(j)

PipelineSpec == InitPipeline /\ [][NextPipeline]_vars

\* The header lines of a text: a line that starts with "diff --git a/" and
\* has " b/" after it.  LineEnd is the index of the newline that ends the
\* line starting at p, or one past the text.
LineEnd(text, p) ==
    LET nl == IndexOf(text, <<NL>>, p)
    IN IF nl = 0 THEN Len(text) + 1 ELSE nl

HeaderStarts(text) ==
    {p \in 1..Len(text) :
        /\ p = 1 \/ text[p - 1] = NL
        /\ MatchesAt(text, HeaderLit, p)
        /\ \E b \in (p + Len(HeaderLit))..(LineEnd(text, p) - Len(SepLit)) :
               MatchesAt(text, SepLit, b)}

\* The text from the end of the header line at p to the next header line.
HunkOf(text, p, starts) ==
    LET later == {q \in starts : q > p}
        stop == IF later = {} THEN Len(text)
                ELSE (CHOOSE q \in later : \A k \in later : q <= k) - 1
    IN SubSeq(text, LineEnd(text, p) + 1, stop)

\* C12: after split_by_file the file list has one record per header line of
\* the diff, in header order, and the diff of each record is the stripped
\* text between its header line and the next header line.
C12_OneRecordPerHeader ==
    \A j \in JobIds :
        (state[j] # None /\ "files" \in DOMAIN state[j]) =>
            \A starts \in {HeaderStarts(state[j]["diff"])} :
                /\ Len(state[j]["files"]) = Cardinality(starts)
                /\ \A p \in starts :
                     \A i \in {Cardinality({q \in starts : q < p}) + 1} :
                        state[j]["files"][i].diff =
                            strip(HunkOf(state[j]["diff"], p, starts))

\* C13: the is_apex flag of every record says whether the stored filename
\* ends in .cls or .trigger.
C13_ApexFlagMatchesFilename ==
    \A j \in JobIds :
        (state[j] # None /\ "files" \in DOMAIN state[j]) =>
            \A i \in 1..Len(state[j]["files"]) :
                state[j]["files"][i].is_apex
                    <=> is_apex_file(state[j]["files"][i].filename)

\* The diff of job j has been fetched and holds no file header at all.
ZeroHeaders(j) ==
    /\ state[j] # None /\ "diff" \in DOMAIN state[j]
    /\ IndexOf(state[j]["diff"], HeaderLit, 1) = 0

\* The completion calls of a job without files: the two aggregate calls, on
\* empty prompts.
EmptyAggregateCalls ==
    <<[content |-> <<>>, max_tokens |-> DevSummaryBudget],
      [content |-> <<>>, max_tokens |-> BusinessSummaryBudget]>>

\* What a completion call can come back as, after strip().
Completions == {strip(t) : t \in CompletionTexts}

\* The part of C14 that does not speak of the summaries: zero records, no
\* call in process_files, the two aggregate calls on empty prompts, and a
\* done record when neither call raised.
ZeroFilesRun(j) ==
    /\ "files" \in DOMAIN state[j] => state[j]["files"] = <<>>
    /\ IsPrefix(calls[j], EmptyAggregateCalls)
    /\ pc[j] \in {"process_files", "aggregate_summaries"} => calls[j] = <<>>
    /\ (pc[j] = "finished" /\ exc[j] = None) =>
           /\ calls[j] = EmptyAggregateCalls
           /\ trace[j] = Pipeline
           /\ job_store[j].status = "done"
           /\ job_store[j].result["files"] = <<>>

\* C14 as stated: on a diff with zero headers the job has zero records,
\* makes only the two aggregate calls on empty prompts, and ends done with
\* both summaries empty.
C14_ZeroFilesEmptySummaries ==
    \A j \in JobIds :
        ZeroHeaders(j) =>
            /\ ZeroFilesRun(j)
            /\ (pc[j] = "finished" /\ exc[j] = None) =>
                   /\ job_store[j].result["dev_summary"] = <<>>
                   /\ job_store[j].result["business_summary"] = <<>>

\* C14 amended: as above, but the two summaries are what the two aggregate
\* calls returned for the empty prompts, stripped.
C14_ZeroFilesStillAggregated ==
    \A j \in JobIds :
        ZeroHeaders(j) =>
            /\ ZeroFilesRun(j)
            /\ (pc[j] = "finished" /\ exc[j] = None) =>
                   /\ job_store[j].result["dev_summary"] \in Completions
                   /\ job_store[j].result["business_summary"] \in Completions

C14_Witness ==
    \E j \in JobIds :
        /\ ZeroHeaders(j) /\ state[j]["diff"] # <<>>
        /\ pc[j] = "finished" /\ exc[j] = None
        /\ calls[j] = EmptyAggregateCalls
        /\ job_store[j].status = "done"
        /\ job_store[j].result["files"] = <<>>

\* ---------------------------------------------- a repeated job id
\* uuid4 draws 122 random bits; nothing in analyze_pr tests whether the id
\* drawn is already a key of job_store.  Here a draw may repeat the id of a
\* job whose thread has ended.

\* analyze_pr, lines 142-143, when uuid4 returns an id drawn before.
AnalyzeInsertRepeated(url) ==
    /\ loop = Idle
    /\ \E id \in DOMAIN job_store :
         /\ pc[id] = "finished"
         /\ job_store' = Publish(job_store, id, ProcessingRecord)
         /\ loop' = [op |-> "analyze_pr", pc |-> "start", job_id |-> id,
                     req |-> [pr_url |-> url]]
    /\ UNCHANGED <<returned, threadVars>>

\* analyze_pr, line 152, for a repeated id: a new thread runs run_job with
\* that id.
AnalyzeRestart ==
    /\ loop # Idle
    /\ loop.op = "analyze_pr" /\ loop.pc = "start"
    /\ pc[loop.job_id] = "finished"
    /\ pc' = [pc EXCEPT ![loop.job_id] = EntryPoint]
    /\ state' = [state EXCEPT ![loop.job_id] = [pr_url |-> loop.req.pr_url]]
    /\ trace' = [trace EXCEPT ![loop.job_id] = <<EntryPoint>>]
    /\ loc' = [loc EXCEPT ![loop.job_id] = NoLocals]
    /\ exc' = [exc EXCEPT ![loop.job_id] = None]
    /\ gets' = [gets EXCEPT ![loop.job_id] = <<>>]
    /\ calls' = [calls EXCEPT ![loop.job_id] = <<>>]
    /\ loop' = [loop EXCEPT !.pc = "return"]
    /\ UNCHANGED <<job_store, returned>>

NextCollide ==
    \/ Next
    \/ \E url \in Urls : AnalyzeInsertRepeated(url)
    \/ AnalyzeRestart

CollideSpec == Init /\ [][NextCollide]_vars

\* C15: a record that is present is never overwritten by a submission: a
\* record changes only by its own job settling it, so a done or error
\* record never changes and never goes back to processing.
C15_NoOverwrite ==
    [][\A id \in DOMAIN job_store :
          \/ job_store'[id] = job_store[id]
          \/ /\ job_store[id].status = "processing"
             /\ job_store'[id].status \in {"done", "error"}]_vars

\* ------------------------------------------------------------ approve_pr
\* POST /approve_pr (lines 162-180).  The handler touches neither job_store
\* nor the job threads; what it does depends on pr_url, on GITHUB_TOKEN and
\* on the answer of the forge.

\* Number of characters that follow ".../pull/" in a submitted pr_url.
MaxSuffix == 3

GithubLit == <<"g", "i", "t", "h", "u", "b">>
ComSlash == <<"c", "o", "m", "/">>
PullLit == <<"/", "p", "u", "l", "l", "/">>

\* What (\\d+) in the raw string of line 169 begins with: an escaped
\* backslash, then the letter d.
BackslashD == <<"\\", "d">>

\* "." of the pattern: any character but a newline.
NoNewline(text, a, b) == \A k \in a..b : text[k] # NL

\* "github.com/" of the pattern matches at s; its "." is not escaped.
PatternStartsAt(url, s) ==
    /\ MatchesAt(url, GithubLit, s)
    /\ s + 6 <= Len(url) /\ url[s + 6] # NL
    /\ MatchesAt(url, ComSlash, s + 7)

\* The ends <<a, b>> of the two lazy groups for a match that starts at s:
\* "/" at a, "/pull/\d" at b.
GroupEnds(url, s) ==
    {ab \in ((s + 11)..Len(url)) \X ((s + 12)..Len(url)) :
        /\ url[ab[1]] = "/"
        /\ ab[2] > ab[1]
        /\ MatchesAt(url, PullLit \o BackslashD, ab[2])
        /\ NoNewline(url, s + 11, ab[1] - 1)
        /\ NoNewline(url, ab[1] + 1, ab[2] - 1)}

\* d+ is greedy: the index after the last d of the run that starts at from.
EndOfDs(url, from) ==
    CHOOSE e \in from..(Len(url) + 1) :
        /\ \A k \in from..(e - 1) : url[k] = "d"
        /\ e = Len(url) + 1 \/ url[e] # "d"

\* re.search(r"github.com/(.*?)/(.*?)/pull/(\\d+)", url): the leftmost
\* start, then the shortest first group, then the shortest second group.
\* None when there is no match, else the three groups.
re_search(url) ==
    LET starts == {s \in 1..Len(url) :
                      PatternStartsAt(url, s) /\ GroupEnds(url, s) # {}}
    IN IF starts = {} THEN None
       ELSE LET s == CHOOSE x \in starts : \A y \in starts : x <= y
                ends == GroupEnds(url, s)
                ab == CHOOSE x \in ends :
                        \A y \in ends :
                            x[1] < y[1] \/ (x[1] = y[1] /\ x[2] <= y[2])
            IN [owner |-> SubSeq(url, s + 11, ab[1] - 1),
                repo |-> SubSeq(url, ab[1] + 1, ab[2] - 1),
                pr_number |-> SubSeq(url, ab[2] + 6,
                                     EndOfDs(url, ab[2] + 7) - 1)]

ApiRepos ==
    <<"h", "t", "t", "p", "s", ":", "/", "/", "a", "p", "i", ".", "g",
        "i", "t", "h", "u", "b", ".", "c", "o", "m", "/", "r", "e",
        "p", "o", "s", "/">>

\* The URL of the reviews call, lines 173-174.
ReviewsUrl(owner, repo, pr_number) ==
    ApiRepos \o owner \o <<"/">> \o repo
      \o <<"/", "p", "u", "l", "l", "s", "/">> \o pr_number
      \o <<"/", "r", "e", "v", "i", "e", "w", "s">>

\* os.getenv("GITHUB_TOKEN"): the variable is set, or it is not.
EnvTokens == {[py |-> "str", value |-> <<"t", "0", "k">>], None}

\* f"token {token}"
AuthorizationOf(token) ==
    <<"t", "o", "k", "e", "n", " ">>
      \o (IF token = None THEN <<"N", "o", "n", "e">> ELSE token.value)

Headers(token) ==
    [Authorization |-> AuthorizationOf(token),
     Accept |-> "application/vnd.github+json"]

InvalidUrl == [error |-> "Invalid GitHub PR URL"]
Approved == [status |-> "approved"]

\* What FastAPI answers when the handler raises.
InternalServerError == [http |-> 500]

\* The answers of the forge to the reviews call.
ForgeResponses ==
    {[status_code |-> 200, json |-> [state |-> "APPROVED"]],
     [status_code |-> 201, json |-> [state |-> "APPROVED"]],
     [status_code |-> 404, json |-> [message |-> "Not Found"]]}

\* Lines 178-180: the body returned for the response r.
ApproveBody(r) ==
    IF r.status_code \in {200, 201} THEN Approved ELSE [error |-> r.json]

\* The submitted URLs: a prefix followed by up to MaxSuffix characters.
UrlPrefixes ==
    {GithubLit \o <<".">> \o ComSlash \o <<"o", "/", "r">> \o PullLit,
     GithubLit \o <<"X">> \o ComSlash \o <<"o", "/", "r">> \o PullLit,
     GithubLit \o <<".">> \o ComSlash \o <<"o">> \o PullLit}

SuffixChars == {"1", "2", "\\", "d", "/"}

RECURSIVE SuffixesUpTo(_)
SuffixesUpTo(n) ==
    IF n = 0 THEN {<<>>}
    ELSE LET prev == SuffixesUpTo(n - 1)
         IN prev \cup {t \o <<c>> : t \in prev, c \in SuffixChars}

ApproveUrls == {p \o t : p \in UrlPrefixes, t \in SuffixesUpTo(MaxSuffix)}

\* Lines 164-172: read the token, build the headers, match the URL.
ApproveParse(url) ==
    /\ loop = Idle
    /\ \E token \in EnvTokens :
         LET match == re_search(url)
         IN IF match = None
            THEN loop' = [op |-> "approve_pr", pc |-> "return",
                          pr_url |-> url, posts |-> <<>>,
                          body |-> InvalidUrl]
            ELSE loop' = [op |-> "approve_pr", pc |-> "post",
                          pr_url |-> url, posts |-> <<>>,
                          headers |-> Headers(token),
                          owner |-> match.owner, repo |-> match.repo,
                          pr_number |-> match.pr_number]
    /\ UNCHANGED <<job_store, returned, threadVars>>

\* Lines 173-180: the one requests.post and the body made of its outcome.
ApprovePost ==
    /\ loop # Idle
    /\ loop.op = "approve_pr" /\ loop.pc = "post"
    /\ \E outcome \in ForgeResponses \cup NetworkErrors :
         loop' = [op |-> "approve_pr", pc |-> "return",
                  pr_url |-> loop.pr_url,
                  posts |-> Append(loop.posts,
                              [url |-> ReviewsUrl(loop.owner, loop.repo,
                                                  loop.pr_number),
                               headers |-> loop.headers,
                               json |-> [event |-> "APPROVE"],
                               outcome |-> outcome]),
                  body |-> IF outcome \in NetworkErrors
                           THEN InternalServerError
                           ELSE ApproveBody(outcome)]
    /\ UNCHANGED <<job_store, returned, threadVars>>

\* The response of approve_pr has been sent.
ApproveReturn ==
    /\ loop # Idle
    /\ loop.op = "approve_pr" /\ loop.pc = "return"
    /\ loop' = Idle
    /\ UNCHANGED <<job_store, returned, threadVars>>

NextApprove ==
    \/ \E url \in ApproveUrls : ApproveParse(url)
    \/ ApprovePost
    \/ ApproveReturn

ApproveSpec == Init /\ [][NextApprove]_vars

Digits == {"0", "1", "2", "3", "4", "5", "6", "7", "8", "9"}

\* The ways to read url as github.com/<owner>/<repo>/pull/<decimal digits>:
\* owner and repo non-empty and without "/", then digits to the end.
PullUrlParts(url) ==
    {[owner |-> SubSeq(url, s + 11, a - 1),
      repo |-> SubSeq(url, a + 1, b - 1),
      pr_number |-> SubSeq(url, b + 6, Len(url))] :
        <<s, a, b>> \in
            {sab \in (1..Len(url)) \X (1..Len(url)) \X (1..Len(url)) :
                /\ MatchesAt(url, GithubLit \o <<".">> \o ComSlash, sab[1])
                /\ sab[2] > sab[1] + 11 /\ url[sab[2]] = "/"
                /\ \A k \in (sab[1] + 11)..(sab[2] - 1) : url[k] # "/"
                /\ sab[3] > sab[2] + 1 /\ MatchesAt(url, PullLit, sab[3])
                /\ \A k \in (sab[2] + 1)..(sab[3] - 1) : url[k] # "/"
                /\ sab[3] + 6 <= Len(url)
                /\ \A k \in (sab[3] + 6)..Len(url) : url[k] \in Digits}}

\* approve_pr is about to send its response.
ApproveReturning == loop # Idle /\ loop.op = "approve_pr" /\ loop.pc = "return"

\* C16: for a pr_url that is not of the form owner/repo/number, approve_pr
\* answers {error: Invalid GitHub PR URL} and has made no outbound call.
C16_InvalidUrlRejected ==
    (ApproveReturning /\ PullUrlParts(loop.pr_url) = {}) =>
        /\ loop.body = InvalidUrl
        /\ loop.posts = <<>>

\* C17: for a pr_url of the form github.com/<owner>/<repo>/pull/<digits>,
\* approve_pr has made exactly one POST, to the reviews URL of that owner,
\* repo and number, and answers approved iff the POST returned 200 or 201,
\* else an error with the body of the forge's response.
C17_ValidUrlApproved ==
    ApproveReturning =>
        \A parts \in PullUrlParts(loop.pr_url) :
            /\ Len(loop.posts) = 1
            /\ loop.posts[1].url =
                   ReviewsUrl(parts.owner, parts.repo, parts.pr_number)
            /\ loop.posts[1].outcome \in ForgeResponses =>
                   /\ loop.body = Approved
                        <=> loop.posts[1].outcome.status_code \in {200, 201}
                   /\ loop.body # Approved =>
                        loop.body = [error |-> loop.posts[1].outcome.json]

\* The calls process_files makes for one record: explanation, review iff
\* is_apex, business summary.
PerFileCalls(file) ==
    <<[content |-> ExplainInstr \o file.diff, max_tokens |-> ExplainBudget]>>
      \o (IF file.is_apex
          THEN <<[content |-> ReviewInstr \o file.diff,
                  max_tokens |-> ReviewBudget]>>
          ELSE <<>>)
      \o <<[content |-> BusinessInstr \o file.diff,
            max_tokens |-> BusinessBudget]>>

RECURSIVE FileCalls(_)
FileCalls(files) ==
    IF files = <<>> THEN <<>>
    ELSE PerFileCalls(Head(files)) \o FileCalls(Tail(files))

Special(files) == {k \in 1..Len(files) : files[k].is_apex}

\* The calls of job j so far are a prefix of: the per-file calls in record
\* order, then the developer-summary call, then the business-summary call.
CallsInOrder(j) ==
    IF state[j] = None \/ "files" \notin DOMAIN state[j]
    THEN calls[j] = <<>>
    ELSE \A perFile \in {FileCalls(state[j]["files"])} :
           /\ Len(calls[j]) <= Len(perFile) + 2
           /\ \A k \in 1..Len(calls[j]) :
                /\ k <= Len(perFile) => calls[j][k] = perFile[k]
                /\ k = Len(perFile) + 1 =>
                       calls[j][k].max_tokens = DevSummaryBudget
                /\ k = Len(perFile) + 2 =>
                       calls[j][k].max_tokens = BusinessSummaryBudget
           /\ pc[j] \in {"process_files", "process_files.review",
                         "process_files.business"} =>
                  Len(calls[j]) <= Len(perFile)

\* The job completed: 2N + S + 2 calls, and no review of a file that is
\* not special.
CallsOfDoneJob(j) ==
    (pc[j] = "finished" /\ exc[j] = None) =>
        \A files \in {job_store[j].result["files"]} :
            /\ Len(calls[j]) = 2 * Len(files) + Cardinality(Special(files)) + 2
            /\ \A k \in 1..Len(files) :
                   ~files[k].is_apex => files[k].review_comments = <<>>

\* C18: every step of a job adds at most one completion call, at the end;
\* the calls are in the order explanation (500), review (500) iff is_apex,
\* business summary (300) per file in record order, then developer summary
\* (400), then business summary (300); a completed job with N files of
\* which S are special has made 2N + S + 2 calls and its result has empty
\* review_comments for every file that is not special.
C18_CallsSequentialInOrder ==
    [][\A j \in JobIds :
          /\ IsPrefix(calls[j], calls'[j])
          /\ Len(calls'[j]) <= Len(calls[j]) + 1
          /\ CallsInOrder(j)'
          /\ CallsOfDoneJob(j)']_vars

C18_Witness ==
    \E j \in JobIds :
        /\ pc[j] = "finished" /\ exc[j] = None
        /\ Len(job_store[j].result["files"]) = 2
        /\ Cardinality(Special(job_store[j].result["files"])) = 1
        /\ Len(calls[j]) = 7

\* The fields a node may set.
FieldsOf(node) ==
    CASE node = "fetch_diff" -> {"diff"}
      [] node = "split_by_file" -> {"files"}
      [] node = "process_files" -> {"files"}
      [] node = "aggregate_summaries" -> {"dev_summary", "business_summary"}
      [] OTHER -> {}

\* new is old except for the fields named.
OnlyChanges(old, new, fields) ==
    /\ DOMAIN old \subseteq DOMAIN new
    /\ DOMAIN new \subseteq DOMAIN old \cup fields
    /\ \A k \in DOMAIN old \ fields : new[k] = old[k]

\* process_files keeps the records apart from its three fields.
SameRecords(old, new) ==
    /\ Len(new) = Len(old)
    /\ \A k \in 1..Len(old) :
           OnlyChanges(old[k], new[k],
                       {"explanation", "review_comments", "business_summary"})

\* C19: in every step of a job pr_url stays what was submitted; the state
\* passed along changes only when the running node returns, and then only
\* in the fields of that node: diff for fetch_pr_diff, files for
\* split_by_file, files for process_files (same number and order of
\* records, filename, diff and is_apex of each kept), dev_summary and
\* business_summary for aggregate_summaries.
C19_StagesChangeOwnFields ==
    [][\A j \in JobIds :
          state[j] # None =>
              /\ state'[j] # None
              /\ "pr_url" \in DOMAIN state'[j]
              /\ state'[j]["pr_url"] = state[j]["pr_url"]
              /\ OnlyChanges(state[j], state'[j], FieldsOf(NodeOf(pc[j])))
              /\ (Running(j) /\ pc'[j] # Edge(NodeOf(pc[j]))) =>
                     state'[j] = state[j]
              /\ (NodeOf(pc[j]) = "process_files"
                    /\ pc'[j] = Edge("process_files")) =>
                     SameRecords(state[j]["files"], state'[j]["files"])]_vars

C19_Witness ==
    \E j \in JobIds :
        /\ pc[j] = END
        /\ state[j]["pr_url"] = <<"h", "/", "2">>
        /\ Len(state[j]["files"]) = 2
        /\ state[j]["files"][1].explanation # <<>>
        /\ state[j]["files"][1].is_apex /\ ~state[j]["files"][2].is_apex
        /\ "dev_summary" \in DOMAIN state[j]

\* C20: while a job is in one of the four nodes its record is the
\* processing record; a done record belongs to a job whose four nodes all
\* ran, and its result is the state aggregate_summaries returned: the file
\* list process_files built and both summaries; an error record belongs to
\* a job in which a node raised.
C20_StatusAgreesWithPipeline ==
    \A j \in JobIds :
        /\ Running(j) =>
               j \in DOMAIN job_store /\ job_store[j] = ProcessingRecord
        /\ (j \in DOMAIN job_store /\ job_store[j].status = "done") =>
               /\ trace[j] = Pipeline /\ exc[j] = None
               /\ "result" \in DOMAIN job_store[j]
               /\ job_store[j].result = state[j]
               /\ {"files", "dev_summary", "business_summary"}
                      \subseteq DOMAIN job_store[j].result
               /\ job_store[j].result["files"] = loc[j].updated_files
               /\ job_store[j].result["dev_summary"] = loc[j].dev_summary
               /\ job_store[j].result["business_summary"] \in Completions
        /\ (j \in DOMAIN job_store /\ job_store[j].status = "error") =>
               /\ exc[j] \in NetworkErrors \cup CompletionErrors
               /\ job_store[j].error = str(exc[j])

C20_Witness ==
    \E j, k \in JobIds :
        /\ j # k /\ {j, k} \subseteq DOMAIN job_store
        /\ job_store[j].status = "done"
        /\ Len(job_store[j].result["files"]) = 2
        /\ job_store[j].result["files"][2].business_summary # <<>>
        /\ Running(k) /\ job_store[k].status = "processing"

====
